---- MODULE Spec2Model ----
(***************************************************************************)
(* Model of custom_components/humidity_control/humidifier.py: the          *)
(* HumidityControl entity (class HumidityControl).                         *)
(*                                                                         *)
(* The entity is an asyncio object: every handler is a coroutine that runs *)
(* atomically up to its next `await` of an external call (a Home Assistant *)
(* service call) or of the tick lock (_humidity_lock).  A handler in       *)
(* flight is a record in `tasks`; one step of the model runs one handler   *)
(* from its start, or from the await it is suspended on, up to its next    *)
(* await or its end.                                                       *)
(*                                                                         *)
(* Time is counted in minutes.  Readings are integers.  None is -1.        *)
(* The state of the humidifier power entity (hass.states) follows the      *)
(* turn_on / turn_off service calls at the moment they are issued.         *)
(***************************************************************************)
EXTENDS Integers, Sequences, FiniteSets, TLC

\* ------------------------------------------------------------------ bounds
MaxTime == 1
MaxTimeGuard == 3
MaxTasks == 2
MaxTimeBoost == 2
MaxTimeStale == 2

\* ------------------------------------------------------- program constants
None == -1

DEFAULT_TOLERANCE == 3
DEFAULT_CO2_TARGET == 600
DEFAULT_CO2_CRITICAL == 900
DEFAULT_VOC_TARGET == 100
DEFAULT_VOC_CRITICAL == 350
DEFAULT_HUMIDITY_DEHUMIDIFY_THRESHOLD == 48
DEFAULT_HUMIDITY_DEHUMIDIFY_CRITICAL == 55
DEFAULT_BOOST_DURATION == 1200
critical_low_humidity == 35
BOOST_HUMIDIFIER_LEVEL == 2

Min(a, b) == IF a <= b THEN a ELSE b
Max(a, b) == IF a >= b THEN a ELSE b

\* A call with its arguments evaluated once, before the call, as Python
\* evaluates them.
Only(S) == CHOOSE x \in S : TRUE
Strict2(F(_, _), a, b) == Only({F(x[1], x[2]) : x \in {<<a, b>>}})
Strict3(F(_, _, _), a, b, c) == Only({F(x[1], x[2], x[3]) : x \in {<<a, b, c>>}})

\* ------------------------------------------------------------ sensor input
\* float(): the raw state strings a sensor can report and what float() makes
\* of them; a string outside the table raises ValueError.
FloatTable ==
  [x \in {"30", "36", "40", "44", "48", "52", "50", "100", "250", "500", "600",
           "750", "1000"} |->
     CASE x = "30" -> 30 [] x = "36" -> 36 [] x = "40" -> 40 [] x = "44" -> 44
       [] x = "48" -> 48 [] x = "52" -> 52 [] x = "50" -> 50 [] x = "100" -> 100
       [] x = "250" -> 250 [] x = "500" -> 500 [] x = "600" -> 600
       [] x = "750" -> 750 [] x = "1000" -> 1000]

IsFloat(raw) == raw \in DOMAIN FloatTable
Float(raw) == FloatTable[raw]

Modes == {"normal", "away"}

\* ------------------------------------------------------------ configuration
\* The constructor arguments (HumidityControl.__init__).  An optional entity
\* is TRUE when configured; level lists are given by their length.
BaseConfig ==
  [ ventilation_entity |-> TRUE,
    humidifier_power_entity |-> TRUE,
    humidifier_level_entity |-> TRUE,
    n_ventilation_levels |-> 5,
    n_humidifier_levels |-> 4,
    target_humidity |-> 45,
    initial_state |-> TRUE,
    away_humidity |-> 40,
    away_fixed |-> FALSE,
    dry_tolerance |-> DEFAULT_TOLERANCE,
    wet_tolerance |-> DEFAULT_TOLERANCE,
    co2_target |-> DEFAULT_CO2_TARGET,
    co2_critical |-> DEFAULT_CO2_CRITICAL,
    voc_target |-> DEFAULT_VOC_TARGET,
    voc_critical |-> DEFAULT_VOC_CRITICAL,
    humidity_dehumidify_threshold |-> DEFAULT_HUMIDITY_DEHUMIDIFY_THRESHOLD,
    humidity_dehumidify_critical |-> DEFAULT_HUMIDITY_DEHUMIDIFY_CRITICAL,
    min_humidify_duration |-> 3,
    min_ventilate_duration |-> 2,
    keep_alive |-> TRUE,
    sensor_stale_duration |-> 0,
    boost_helper |-> FALSE ]

NoLevelEntityConfig == [BaseConfig EXCEPT !.humidifier_level_entity = FALSE]
NoVentilationConfig == [BaseConfig EXCEPT !.ventilation_entity = FALSE]

Configs == {BaseConfig, NoLevelEntityConfig}

\* A humidifier level list of two entries (any list of strings is accepted).
TwoLevelConfig == [BaseConfig EXCEPT !.n_humidifier_levels = 2]

\* cfg: the constructor arguments; lim: the bounds of the run (how many
\* handlers may be in flight, how far the clock runs, whether boost round
\* trips are followed); now: the clock;
\* self: the entity's fields, its lock, and the power entity's state;
\* tasks: the handlers in flight; ev: what the last step did.
VARIABLES cfg, lim, now, self, tasks, ev

vars == <<cfg, lim, now, self, tasks, ev>>

\* ----------------------------------------------------------- in-flight task
\* What a normal tick saw when it began (observation only): the handler that
\* ran it, whether boost was active when that handler began (b0), whether the
\* tick was forced, the commanded ventilation level (v0), the
\* humidifier's level index as the entity computes it (h0), its power state
\* (p0) and selected level (n0), the two timestamps (lv0, lh0), the levels the
\* Arbitration Engine requested (rv, rh), the Duration Guard's two
\* verdicts (cv, ch), the time the tick began (t0), and whether the engine
\* became active in this tick (woke).
NoTick ==
  [ kind |-> "none", op |-> "none", b0 |-> FALSE, force |-> FALSE, v0 |-> 0,
    h0 |-> 0,
    p0 |-> FALSE, n0 |-> None, lv0 |-> None, lh0 |-> None, rv |-> 0, rh |-> 0,
    cv |-> FALSE, ch |-> FALSE, t0 |-> 0, woke |-> FALSE ]

\* A handler suspended on an await: where (pc), what follows the setter it is
\* in (k), the coroutine's locals (force, vl, vr, hl, mode), whether it holds
\* the lock, and, for the observation, the handler it belongs to (op), whether
\* boost was active when it began (b0), whether its humidity update failed to
\* parse (fail), whether its tick made the engine active (woke) and what its
\* tick saw (pre).
NewTask(op) ==
  [ pc |-> "run", k |-> "end", op |-> op, b0 |-> self.boost_active,
    force |-> FALSE,
    vl |-> 0, vr |-> "none", hl |-> 0, mode |-> "idle",
    locked |-> FALSE, fail |-> FALSE, woke |-> FALSE, pre |-> NoTick ]

\* What one step did (observation only; no handler reads it):
\*   bad    a humidity update failed to parse in this step
\*   tick   the branch of _async_operate's body the step entered, if any
\*   cmd    the service call the step issued, if any, and whether the handler
\*          held the tick lock when it issued it (held)
\*   exc    the step ended with an exception; raised: the service call that
\*          raised it, if it was one, and the level it was to apply
\*   fin    the handler ended in this step; fail: it was a humidity update
\*          that had failed to parse; stale: it was the stale-sensor timer
\*   end    the tick that ended in this step, with what it saw when it began
\*   at     what a tick that returned early found when it began
\*   streak the run of consecutive guard-suppressed ticks asking for the same
\*          new ventilation level: that level, and the ventilation commands
\*          those ticks have emitted (kept from step to step)
\*   trip   how far a boost round trip has got with the readings unchanged
\*          (kept from step to step): "boost" after a boost tick, "ended"
\*          after the forced tick of the boost's end, "tripped" after the
\*          first non-forced tick that follows it
\*   twin   how many ticks in a row have ended with the same force flag
\*          since the readings last changed (n: 1, or 2 from the second on),
\*          and that flag (kept from step to step)
\*   levelled  when the commanded ventilation level last changed (kept from
\*          step to step)
NoStreak == [level |-> None, cmds |-> 0]

\* The actuator state: commanded levels, reason, timestamps, operating mode.
ActuatorView(s) ==
  << s.current_ventilation_level, s.ventilation_reason,
     s.current_humidifier_level, s.power_on, s.last_ventilation_change,
     s.last_humidifier_change, s.extended_operating_mode >>

NoView == <<0, "none", None, FALSE, None, None, "idle">>

NoEvent ==
  [ bad |-> FALSE, tick |-> "none", cmd |-> "none", held |-> FALSE, exc |-> FALSE,
    fin |-> FALSE, fail |-> FALSE, stale |-> FALSE, end |-> NoTick,
    at |-> NoView, streak |-> NoStreak, trip |-> "none",
    raised |-> [cmd |-> "none", level |-> 0],
    twin |-> [n |-> 0, force |-> FALSE], levelled |-> None ]

Finish(c, t) ==
  [c |-> [c EXCEPT !.e.fin = TRUE, !.e.fail = t.fail,
                   !.e.stale = t.op = "stale"],
   t |-> [t EXCEPT !.pc = "done"]]
Suspend(c, t, pc) == [c |-> c, t |-> [t EXCEPT !.pc = pc]]
Call(c, t, cmd) ==
  [c EXCEPT !.e.cmd = cmd, !.e.held = t.locked,
            !.e.streak.cmds = IF cmd = "vent" /\ c.e.tick = "normal"
                                 /\ c.e.streak.level # None
                              THEN Min(2, @ + 1) ELSE @]

\* ------------------------------------------------------------ pure helpers
is_humidifier_power_on(s) == cfg.humidifier_power_entity /\ s.power_on

get_current_humidifier_level_index(s) ==
  IF ~is_humidifier_power_on(s) THEN 0
  ELSE IF s.current_humidifier_level # None
          /\ s.current_humidifier_level \in 0..(cfg.n_humidifier_levels - 1)
       THEN s.current_humidifier_level
       ELSE 0

\* status_order index: 0 good, 1 elevated, 2 poor, 3 critical
StatusOf(cur, target, critical) ==
  IF cur = None THEN 0
  ELSE IF cur >= critical THEN 3
  ELSE IF 2 * cur >= 3 * target THEN 2
  ELSE IF cur >= target THEN 1
  ELSE 0

update_air_quality_status(s) ==
  [s EXCEPT !.air_quality_status =
     Max(StatusOf(s.cur_co2, cfg.co2_target, cfg.co2_critical),
         StatusOf(s.cur_voc, cfg.voc_target, cfg.voc_critical))]

\* min(max_levels, int((excess / range) * max_levels) + 1)
\* int(): truncation toward zero.
TruncDiv(a, b) == IF a >= 0 THEN a \div b ELSE -((-a) \div b)

ProportionalLevel_Wraps(excess, range, max_levels) ==
  (TruncDiv(excess * max_levels, range) + 1) % (max_levels + 1)

ProportionalLevel(excess, range, max_levels) ==
  Min(max_levels, TruncDiv(excess * max_levels, range) + 1)

calculate_ventilation_need(s) ==
  LET max_levels == cfg.n_ventilation_levels - 1
      co2_on == s.cur_co2 # None /\ s.cur_co2 >= cfg.co2_target
      co2_level == IF co2_on
                   THEN ProportionalLevel(s.cur_co2 - cfg.co2_target,
                                          cfg.co2_critical - cfg.co2_target,
                                          max_levels)
                   ELSE 0
      reason1 == IF co2_on /\ (co2_level >= s.current_ventilation_level
                               \/ s.current_ventilation_level = 0)
                 THEN "co2" ELSE "none"
      voc_on == s.cur_voc # None /\ s.cur_voc >= cfg.voc_target
      voc_level == IF voc_on
                   THEN ProportionalLevel(s.cur_voc - cfg.voc_target,
                                          cfg.voc_critical - cfg.voc_target,
                                          max_levels)
                   ELSE 0
      reason == IF voc_on /\ voc_level > co2_level THEN "voc" ELSE reason1
  IN  [level |-> Max(co2_level, voc_level), reason |-> reason]

\* Mutant: humidifying stops only once the target is reached.
WithinDryTolerance_Surplus(deficit) == deficit <= 0

\* _calculate_humidifier_need line 968
WithinDryTolerance(deficit) == deficit < cfg.dry_tolerance

calculate_humidifier_need(s) ==
  IF s.target_humidity = None \/ s.cur_humidity = None
  THEN [level |-> 0, needed |-> FALSE]
  ELSE LET deficit == s.target_humidity - s.cur_humidity
           max_level == cfg.n_humidifier_levels - 1
       IN  IF WithinDryTolerance(deficit) THEN [level |-> 0, needed |-> FALSE]
           ELSE IF deficit >= cfg.dry_tolerance + 10
                THEN [level |-> max_level, needed |-> TRUE]
           ELSE IF deficit >= cfg.dry_tolerance + 5
                THEN [level |-> Max(1, max_level - 1), needed |-> TRUE]
           ELSE [level |-> 1, needed |-> TRUE]

is_dehumidify_needed_WithActuator(s) ==
  /\ cfg.ventilation_entity
  /\ s.cur_humidity # None /\ s.cur_humidity >= cfg.humidity_dehumidify_threshold

is_dehumidify_needed(s) ==
  s.cur_humidity # None /\ s.cur_humidity >= cfg.humidity_dehumidify_threshold

calculate_dehumidify_ventilation(s) ==
  IF s.cur_humidity = None THEN [level |-> 0, reason |-> "none"]
  ELSE LET max_levels == cfg.n_ventilation_levels - 1
           humidity_range == cfg.humidity_dehumidify_critical
                             - cfg.humidity_dehumidify_threshold
           humidity_excess == s.cur_humidity - cfg.humidity_dehumidify_threshold
       IN  IF humidity_excess <= 0 THEN [level |-> 0, reason |-> "none"]
           ELSE [level |-> ProportionalLevel(humidity_excess, humidity_range,
                                             max_levels),
                 reason |-> "humidity"]

\* returns the adjusted <<vent_level, humidifier_level>>
resolve_conflicts(s, vent_level, humidifier_level) ==
  IF s.cur_humidity = None \/ s.target_humidity = None
  THEN <<vent_level, humidifier_level>>
  ELSE IF s.cur_humidity < critical_low_humidity /\ vent_level > 2
       THEN <<2, humidifier_level>>
       ELSE <<vent_level, humidifier_level>>

can_change_humidifier(s) ==
  \/ s.last_humidifier_change = None
  \/ now - s.last_humidifier_change >= cfg.min_humidify_duration

can_change_ventilation(s) ==
  \/ s.last_ventilation_change = None
  \/ now - s.last_ventilation_change >= cfg.min_ventilate_duration

update_action_from_mode(s, mode) ==
  IF mode = "humidifying" THEN "humidifying"
  ELSE IF mode = "dehumidifying" THEN "drying"
  ELSE IF mode \in {"ventilating", "ventilating_and_humidifying"}
       THEN IF is_humidifier_power_on(s) THEN "humidifying" ELSE "drying"
  ELSE "idle"

\* ZeroDivisionError in the Arbitration Engine: a reading at or above its
\* target is divided by a critical-minus-target range of 0 (lines 943, 951,
\* and 1006 in the dehumidifying branch).
ArbitrationRaises(s) ==
  \/ s.cur_co2 # None /\ s.cur_co2 >= cfg.co2_target
       /\ cfg.co2_critical = cfg.co2_target
  \/ s.cur_voc # None /\ s.cur_voc >= cfg.voc_target
       /\ cfg.voc_critical = cfg.voc_target
  \/ /\ calculate_ventilation_need(s).level <= 0
     /\ ~calculate_humidifier_need(s).needed
     /\ is_dehumidify_needed(s)
     /\ s.cur_humidity > cfg.humidity_dehumidify_threshold
     /\ cfg.humidity_dehumidify_critical = cfg.humidity_dehumidify_threshold

\* _async_operate, lines 864-884: the Arbitration Engine's decision.
Arbitrate(s) ==
  LET vn == calculate_ventilation_need(s)
      hn == calculate_humidifier_need(s)
      dv == calculate_dehumidify_ventilation(s)
      new_mode == IF vn.level > 0 /\ hn.needed THEN "ventilating_and_humidifying"
                  ELSE IF vn.level > 0 THEN "ventilating"
                  ELSE IF hn.needed THEN "humidifying"
                  ELSE IF is_dehumidify_needed(s) THEN "dehumidifying"
                  ELSE "idle"
      v == IF new_mode = "dehumidifying" THEN dv ELSE vn
      rc == resolve_conflicts(s, v.level, hn.level)
  IN  [ vent_level |-> rc[1], vent_reason |-> v.reason,
        humidifier_level |-> rc[2], new_mode |-> new_mode ]

\* _async_operate, lines 886-891: the Duration Guard.
DurationGuard(s, d, force) ==
  IF force THEN d
  ELSE [d EXCEPT
          !.humidifier_level = IF ~can_change_humidifier(s)
                               THEN get_current_humidifier_level_index(s)
                               ELSE @,
          !.vent_level = IF ~can_change_ventilation(s)
                         THEN s.current_ventilation_level
                         ELSE @]

\* ------------------------------------------------- the tick and its setters
\* Leaving `async with self._humidity_lock`.
ReleaseLock(c) == [c EXCEPT !.s.humidity_lock = FALSE]

\* An exception inside the tick body (IndexError, ZeroDivisionError): the lock
\* is released and the handler ends there.
RaiseInTick(c, t) ==
  Finish([ReleaseLock(c) EXCEPT
            !.e.exc = TRUE,
            !.e.end = IF t.k = "boost" THEN [NoTick EXCEPT !.kind = "boost_raised"]
                      ELSE [t.pre EXCEPT !.kind = "tick_raised"]],
         t)

\* _async_operate lines 897-899 (k = "tick"), _async_operate_boost line 1141
\* (k = "boost"): what follows the humidifier setter; then the lock is left.
AfterHumidifier(c, t) ==
  IF t.k = "tick"
  THEN Finish(ReleaseLock(
         [c EXCEPT !.s.extended_operating_mode = t.mode,
                   !.s.attr_action = update_action_from_mode(c.s, t.mode),
                   !.e.end = t.pre]), t)
  ELSE Finish(ReleaseLock(
         [c EXCEPT !.s.extended_operating_mode = "boost",
                   !.e.end = [NoTick EXCEPT !.kind = "boost", !.op = t.op,
                                            !.b0 = t.b0, !.woke = t.woke]]), t)

\* _async_set_humidifier_level line 1235
HumidifierStamp(c, t) ==
  AfterHumidifier([c EXCEPT !.s.last_humidifier_change = now], t)

\* _async_set_humidifier_level lines 1231-1233
HumidifierTurnOn(c, t) ==
  IF ~is_humidifier_power_on(c.s)
  THEN Suspend(Call([c EXCEPT !.s.power_on = TRUE], t, "hum_on"), t, "hum_on")
  ELSE HumidifierStamp(c, t)

\* _async_set_humidifier_level(t.hl), up to its first service call
set_humidifier_level(c, t) ==
  IF ~cfg.humidifier_power_entity THEN AfterHumidifier(c, t)
  ELSE IF t.hl = get_current_humidifier_level_index(c.s)
       THEN AfterHumidifier(c, t)
  ELSE IF t.hl = 0
       THEN Suspend(Call([c EXCEPT !.s.power_on = FALSE], t, "hum_off"), t,
                    "hum_off")
  ELSE IF t.hl > cfg.n_humidifier_levels - 1 \/ t.hl < -cfg.n_humidifier_levels
       THEN RaiseInTick(c, t)                \* IndexError, line 1217
  ELSE IF cfg.humidifier_level_entity
       THEN Suspend(Call(c, t, "hum_select"), t, "hum_select")
  ELSE HumidifierTurnOn(c, t)

\* What follows _async_set_ventilation_level in the tick: line 895 (k = "tick")
\* or _async_operate_boost lines 1134-1141 (k = "boost").
AfterVentilation(c, t) ==
  IF t.k = "tick" THEN set_humidifier_level(c, t)
  ELSE IF c.s.cur_humidity # None /\ c.s.target_humidity # None
       THEN IF c.s.cur_humidity < c.s.target_humidity - cfg.dry_tolerance
            THEN set_humidifier_level(c, [t EXCEPT !.hl = BOOST_HUMIDIFIER_LEVEL])
            ELSE set_humidifier_level(c, [t EXCEPT !.hl = 0])
       ELSE AfterHumidifier(c, t)

\* _async_set_ventilation_level line 1152
VentilationUnchanged(s, level, reason) ==
  level = s.current_ventilation_level /\ reason = s.ventilation_reason

\* _async_set_ventilation_level line 1156
ClampLevel(level) == Max(0, Min(level, cfg.n_ventilation_levels - 1))

\* _async_set_ventilation_level lines 1197-1199, after the service call
VentilationWrite(c, t) ==
  [c EXCEPT !.s.current_ventilation_level = t.vl,
            !.s.ventilation_reason = t.vr,
            !.s.last_ventilation_change = now]

\* _async_set_ventilation_level(t.vl, t.vr) in the tick, up to its service call
set_ventilation_level(c, t) ==
  IF ~cfg.ventilation_entity THEN AfterVentilation(c, t)
  ELSE IF VentilationUnchanged(c.s, t.vl, t.vr) THEN AfterVentilation(c, t)
  ELSE IF cfg.n_ventilation_levels = 0
       THEN RaiseInTick(c, t)                \* IndexError, line 1157
  ELSE Suspend(Call(c, t, "vent"), [t EXCEPT !.vl = ClampLevel(t.vl)], "vent")

\* Mutant: the latch forgets to look at the current reading.
BecomesActive_TargetOnly(s) == ~s.active /\ s.target_humidity # None

\* _async_operate lines 841-854: the engine-active latch
BecomesActive(s) ==
  ~s.active /\ s.cur_humidity # None /\ s.target_humidity # None

\* Mutant: the early return forgets the engine-active flag.
ReturnsEarly_StateOnly(s) == ~s.state

\* _async_operate line 853
ReturnsEarly(s) == ~s.active \/ ~s.state

\* The observation of a normal tick at its start.
TickSeen(s, a, op, force) ==
  [ kind |-> "tick", op |-> op, b0 |-> FALSE, force |-> force,
    v0 |-> s.current_ventilation_level,
    h0 |-> get_current_humidifier_level_index(s),
    p0 |-> s.power_on, n0 |-> s.current_humidifier_level,
    lv0 |-> s.last_ventilation_change, lh0 |-> s.last_humidifier_change,
    rv |-> a.vent_level, rh |-> a.humidifier_level,
    cv |-> can_change_ventilation(s), ch |-> can_change_humidifier(s),
    t0 |-> now, woke |-> FALSE ]

\* The run of suppressed ticks asking for the same new ventilation level goes
\* on with this tick, starts with it, or is over.
StreakNext(streak, p) ==
  IF ~p.force /\ ~p.cv /\ p.rv # p.v0
  THEN IF streak.level = p.rv THEN streak ELSE [level |-> p.rv, cmds |-> 0]
  ELSE NoStreak

\* _async_operate lines 864-895 of a normal tick, a being the Arbitration
\* Engine's decision: the Duration Guard, then the setters
OperateNormal(c, t, a) ==
  LET d == DurationGuard(c.s, a, t.force)
      p == TickSeen(c.s, a, t.op, t.force)
  IN  Strict2(set_ventilation_level,
              [c EXCEPT !.e.tick = "normal",
                        !.e.streak = StreakNext(c.e.streak, p)],
              [t EXCEPT !.k = "tick", !.vl = d.vent_level, !.vr = d.vent_reason,
                        !.hl = d.humidifier_level, !.mode = d.new_mode,
                        !.pre = [p EXCEPT !.b0 = t.b0, !.woke = t.woke]])

\* _async_operate lines 859-884, the engine being active and enabled
OperateActive(c, t) ==
  IF c.s.boost_active
  THEN Strict2(set_ventilation_level,
               [c EXCEPT !.e.tick = "boost", !.e.streak = NoStreak],
               [t EXCEPT !.k = "boost", !.vl = cfg.n_ventilation_levels - 1,
                         !.vr = "boost"])
  ELSE IF ArbitrationRaises(c.s)
       THEN RaiseInTick([c EXCEPT !.e.tick = "normal", !.e.streak = NoStreak],
                        [t EXCEPT !.k = "tick"])
  ELSE Strict3(OperateNormal, c, t, Arbitrate(c.s))

\* Mutant: the tick that makes the engine active keeps its own force flag.
OperateBody_KeepsForce(c, t) ==
  LET act == BecomesActive(c.s)
      s1 == [c.s EXCEPT !.active = IF act THEN TRUE ELSE @]
  IN  IF ReturnsEarly(s1)
      THEN Finish(ReleaseLock(
             [c EXCEPT !.s = s1, !.e.at = ActuatorView(c.s),
                       !.e.tick = IF ~s1.active THEN "inactive" ELSE "disabled"]), t)
      ELSE Strict2(OperateActive,
                   [c EXCEPT !.s = update_air_quality_status(s1)],
                   [t EXCEPT !.woke = act])

\* _async_operate's body, entered with the lock held (lines 841-899)
OperateBody(c, t) ==
  LET act == BecomesActive(c.s)
      s1 == [c.s EXCEPT !.active = IF act THEN TRUE ELSE @]
  IN  IF ReturnsEarly(s1)
      THEN Finish(ReleaseLock(
             [c EXCEPT !.s = s1, !.e.at = ActuatorView(c.s),
                       !.e.tick = IF ~s1.active THEN "inactive" ELSE "disabled"]), t)
      ELSE Strict2(OperateActive,
                   [c EXCEPT !.s = update_air_quality_status(s1)],
                   [t EXCEPT !.force = t.force \/ act, !.woke = act])

\* Mutant: the tick body is entered without looking at the lock.
LockFree_Ignored(s) == TRUE

\* asyncio.Lock.acquire does not wait when the lock is free and nobody waits
LockFree(s) ==
  ~s.humidity_lock /\ \A i \in 1..Len(tasks) : tasks[i].pc # "operate"

\* `await self._async_operate(force=force)` from a handler
async_operate(c, t, force) ==
  IF LockFree(c.s)
  THEN Strict2(OperateBody, [c EXCEPT !.s.humidity_lock = TRUE],
               [t EXCEPT !.force = force, !.locked = TRUE])
  ELSE Suspend(c, [t EXCEPT !.force = force], "operate")

\* ------------------------------------------------------------- all-off path
\* What follows _async_turn_off_all: _async_sensor_update's tick (line 726),
\* async_turn_off lines 668-669, or nothing (_async_sensor_not_responding).
AfterTurnOffAll(c, t) ==
  IF t.k = "off_operate" THEN async_operate(c, t, FALSE)
  ELSE IF t.k = "off_idle"
       THEN Finish([c EXCEPT !.s.extended_operating_mode = "idle",
                             !.s.attr_action = "idle"], t)
  ELSE Finish(c, t)

\* _async_turn_off_all lines 1282-1283
TurnOffAllVentilation(c, t) ==
  IF ~cfg.ventilation_entity THEN AfterTurnOffAll(c, t)
  ELSE IF VentilationUnchanged(c.s, 0, "none") THEN AfterTurnOffAll(c, t)
  ELSE Suspend(Call(c, t, "vent"),
               [t EXCEPT !.vl = ClampLevel(0), !.vr = "none"], "off_vent")

\* _async_turn_off_all lines 1278-1279
turn_off_all(c, t) ==
  IF is_humidifier_power_on(c.s)
  THEN Suspend(Call([c EXCEPT !.s.power_on = FALSE], t, "hum_off"), t, "off_hum")
  ELSE TurnOffAllVentilation(c, t)

\* A suspended handler continues after the await it was suspended on.
ResumeTask(c, t) ==
  CASE t.pc = "operate"    ->
         Strict2(OperateBody, [c EXCEPT !.s.humidity_lock = TRUE],
                 [t EXCEPT !.locked = TRUE])
    [] t.pc = "vent"       -> Strict2(AfterVentilation, VentilationWrite(c, t), t)
    [] t.pc = "hum_off"    ->
         Strict2(HumidifierStamp,
                 [c EXCEPT !.s.current_humidifier_level = None], t)
    [] t.pc = "hum_select" ->
         Strict2(HumidifierTurnOn,
                 [c EXCEPT !.s.current_humidifier_level = t.hl], t)
    [] t.pc = "hum_on"     -> HumidifierStamp(c, t)
    [] t.pc = "helper_off" -> async_operate(c, t, TRUE)
    [] t.pc = "off_hum"    -> TurnOffAllVentilation(c, t)
    [] t.pc = "off_vent"   -> Strict2(AfterTurnOffAll, VentilationWrite(c, t), t)

\* ----------------------------------------------------------------- handlers
\* Each handler is given the context c (the entity and an empty observation)
\* and a fresh task, and runs up to its first await or its end.

\* _async_update_humidity; k is what follows _async_turn_off_all on failure
update_humidity(c, t, raw, k) ==
  IF IsFloat(raw)
  THEN [ok |-> TRUE, c |-> [c EXCEPT !.s.cur_humidity = Float(raw)], t |-> t]
  ELSE [ok |-> FALSE,
        c |-> [c EXCEPT !.s.active = FALSE, !.s.cur_humidity = None,
                        !.e.bad = TRUE],
        t |-> [t EXCEPT !.k = k, !.fail = TRUE]]

\* _async_sensor_update lines 715-723: (re)start the stale interval
RestartStaleTracking(s) ==
  IF cfg.sensor_stale_duration # 0
  THEN [s EXCEPT !.remove_stale_tracking = now + cfg.sensor_stale_duration]
  ELSE s

\* _async_sensor_event / _async_sensor_update
sensor_update(c, t, raw) ==
  LET u == update_humidity([c EXCEPT !.s = RestartStaleTracking(c.s)], t, raw,
                           "off_operate")
  IN  IF u.ok THEN async_operate(u.c, u.t, FALSE)
      ELSE Strict2(turn_off_all, u.c, u.t)

\* _async_sensor_not_responding
sensor_not_responding(c, t) ==
  LET c1 == [c EXCEPT !.s.remove_stale_tracking = now + cfg.sensor_stale_duration]
      u == update_humidity(c1, t, "Stalled", "off_end")
  IN  IF u.ok THEN Finish(u.c, u.t) ELSE Strict2(turn_off_all, u.c, u.t)

\* Mutant: a CO2 reading that fails to parse leaves the last value in place.
update_co2_KeepsValue(s, raw) ==
  [s EXCEPT !.cur_co2 = IF IsFloat(raw) THEN Float(raw) ELSE @]

\* _async_update_co2, _async_update_voc
update_co2(s, raw) == [s EXCEPT !.cur_co2 = IF IsFloat(raw) THEN Float(raw) ELSE None]
update_voc(s, raw) == [s EXCEPT !.cur_voc = IF IsFloat(raw) THEN Float(raw) ELSE None]

async_turn_on(c, t) ==
  IF ~c.s.active THEN Finish(c, t)
  ELSE async_operate([c EXCEPT !.s.state = TRUE], t, TRUE)

\* Mutant: turn-off does not look at the engine-active flag.
async_turn_off_Unguarded(c, t) ==
  Strict2(turn_off_all, [c EXCEPT !.s.state = FALSE],
          [t EXCEPT !.k = "off_idle"])

async_turn_off(c, t) ==
  IF ~c.s.active THEN Finish(c, t)
  ELSE Strict2(turn_off_all, [c EXCEPT !.s.state = FALSE],
               [t EXCEPT !.k = "off_idle"])

\* Mutant: the away target is never treated as fixed.
TargetIsFixed_Never(s) == FALSE

\* async_set_humidity line 677
TargetIsFixed(s) == s.is_away /\ cfg.away_fixed

async_set_humidity(c, t, humidity) ==
  IF TargetIsFixed(c.s)
  THEN Finish([c EXCEPT !.s.saved_target_humidity = humidity], t)
  ELSE async_operate([c EXCEPT !.s.target_humidity = humidity], t, FALSE)

async_set_mode(c, t, mode) ==
  LET s == c.s
      s1 == IF mode = "away" /\ cfg.away_humidity # None
            THEN [s EXCEPT !.is_away = TRUE,
                           !.saved_target_humidity = s.target_humidity,
                           !.target_humidity = cfg.away_humidity]
            ELSE IF mode = "normal"
            THEN [s EXCEPT !.is_away = FALSE,
                           !.target_humidity =
                              IF s.saved_target_humidity \notin {None, 0}
                              THEN s.saved_target_humidity ELSE @]
            ELSE s
  IN  async_operate([c EXCEPT !.s = s1], t, TRUE)

\* self._remove_boost_timer(): the interval timer the handle stands for stops
\* (boost_timers counts the expiry-check timers that are scheduled).
CancelBoostTimer_Leaks(s) == s

CancelBoostTimer(s) ==
  IF s.remove_boost_timer /\ s.boost_timers > 0
  THEN [s EXCEPT !.boost_timers = @ - 1]
  ELSE s

async_activate_boost(c, t, duration) ==
  async_operate([c EXCEPT !.s = [CancelBoostTimer(c.s) EXCEPT
                                   !.boost_active = TRUE,
                                   !.boost_end_time = now + duration,
                                   !.boost_timers = @ + 1,
                                   !.remove_boost_timer = TRUE]], t, TRUE)

async_deactivate_boost(c, t) ==
  LET c1 == [c EXCEPT !.s = [CancelBoostTimer(c.s) EXCEPT
                               !.boost_active = FALSE,
                               !.boost_end_time = None,
                               !.remove_boost_timer = FALSE]]
  IN  IF cfg.boost_helper /\ c1.s.helper_on
      THEN Suspend(Call([c1 EXCEPT !.s.helper_on = FALSE], t, "helper_off"),
                   t, "helper_off")
      ELSE async_operate(c1, t, TRUE)

\* _async_boost_helper_event: st is the helper's new state.
async_boost_helper_event(c, t, st) ==
  IF st = "none" THEN Finish(c, t)
  ELSE IF st = "on" /\ ~c.s.boost_active
       THEN async_activate_boost(c, t, DEFAULT_BOOST_DURATION)
  ELSE IF st = "off" /\ c.s.boost_active
       THEN async_deactivate_boost(c, t)
  ELSE Finish(c, t)

\* async_will_remove_from_hass: the stale-sensor timer and the boost timer are
\* stopped through their handles (the handles themselves are kept); the
\* entity's on-remove callbacks stop the keep-alive timer and the listeners.
async_will_remove_from_hass_KeepsBoostTimer(c, t) ==
  Finish([c EXCEPT !.s.remove_stale_tracking = None,
                   !.s.listening = FALSE], t)

async_will_remove_from_hass(c, t) ==
  Finish([c EXCEPT !.s = [CancelBoostTimer(c.s) EXCEPT
                            !.remove_stale_tracking = None,
                            !.listening = FALSE]], t)

\* Mutant: the end check lets the boost run one clock step longer.
BoostExpired_Late(s) == now > s.boost_end_time

\* _async_check_boost_end line 1125
BoostExpired(s) == now >= s.boost_end_time

async_check_boost_end(c, t) ==
  IF ~c.s.boost_active \/ c.s.boost_end_time = None THEN Finish(c, t)
  ELSE IF BoostExpired(c.s) THEN async_deactivate_boost(c, t)
  ELSE Finish(c, t)

\* ------------------------------------------------------------------ actions
Ctx == [s |-> self, e |-> [NoEvent EXCEPT !.streak = ev.streak,
                                         !.trip = ev.trip,
                                         !.twin = ev.twin,
                                         !.levelled = ev.levelled]]

\* The readings and switches a tick decides from.
Readings(s) ==
  << s.cur_humidity, s.cur_co2, s.cur_voc, s.target_humidity, s.state, s.active >>

\* The boost round trip after a step from s0 to s1 that observed e.
TripNext(trip, s0, s1, e) ==
  IF ~lim.trip \/ Readings(s1) # Readings(s0) THEN "none"
  ELSE IF e.end.kind \in {"boost", "boost_raised"} THEN "boost"
  ELSE IF e.end.kind = "tick_raised" THEN "none"
  ELSE IF e.end.kind = "tick"
       THEN IF e.end.force /\ trip = "boost" THEN "ended"
            ELSE IF ~e.end.force /\ trip = "ended" THEN "tripped"
            ELSE "none"
  ELSE IF trip = "tripped" \/ e.tick \in {"inactive", "disabled"} THEN "none"
  ELSE trip

TwinNext(twin, s0, s1, e) ==
  IF ~lim.trip THEN NoEvent.twin
  ELSE IF e.end.kind = "tick"
       THEN IF Readings(s1) = Readings(s0) /\ twin.n > 0
               /\ twin.force = e.end.force
            THEN [n |-> 2, force |-> e.end.force]
            ELSE [n |-> 1, force |-> e.end.force]
  ELSE IF Readings(s1) # Readings(s0) \/ e.end.kind # "none" THEN NoEvent.twin
  ELSE twin

Observed(r) ==
  [r.c.e EXCEPT !.trip = TripNext(ev.trip, self, r.c.s, r.c.e),
                !.twin = TwinNext(ev.twin, self, r.c.s, r.c.e),
                !.levelled =
                   IF r.c.s.current_ventilation_level
                        # self.current_ventilation_level
                   THEN now ELSE ev.levelled]

RemoveAt(seq, i) == SubSeq(seq, 1, i - 1) \o SubSeq(seq, i + 1, Len(seq))

\* A handler starts (ran is how far it got): it ends within the step or stays
\* in flight.
Start(ran) ==
  /\ Len(tasks) < lim.tasks
  /\ \E r \in {ran} :
       /\ self' = r.c.s
       /\ ev' = Observed(r)
       /\ tasks' = IF r.t.pc = "done" THEN tasks ELSE Append(tasks, r.t)
  /\ UNCHANGED <<cfg, lim, now>>

SensorEvent(Raw) ==
  \E raw \in Raw : Start(sensor_update(Ctx, NewTask("sensor"), raw))

SensorNotResponding ==
  /\ cfg.sensor_stale_duration # 0
  /\ self.remove_stale_tracking # None
  /\ now >= self.remove_stale_tracking
  /\ Start(sensor_not_responding(Ctx, NewTask("stale")))

CO2Event(Raw) ==
  \E raw \in Raw :
    /\ raw \notin {"unknown", "unavailable"}
    /\ Start(async_operate([Ctx EXCEPT !.s = update_co2(self, raw)],
                           NewTask("co2"), FALSE))

VOCEvent(Raw) ==
  \E raw \in Raw :
    /\ raw \notin {"unknown", "unavailable"}
    /\ Start(async_operate([Ctx EXCEPT !.s = update_voc(self, raw)],
                           NewTask("voc"), FALSE))

KeepAlive ==
  /\ cfg.keep_alive
  /\ self.listening
  /\ Start(async_operate(Ctx, NewTask("keep_alive"), FALSE))

TurnOn == Start(async_turn_on(Ctx, NewTask("turn_on")))

TurnOff == Start(async_turn_off(Ctx, NewTask("turn_off")))

SetHumidity(Targets) ==
  \E h \in Targets :
    Start(async_set_humidity(Ctx, NewTask("set_humidity"), h))

SetMode(Ms) ==
  \E m \in Ms : Start(async_set_mode(Ctx, NewTask("set_mode"), m))

ActivateBoost(Durations) ==
  \E d \in Durations :
    Start(async_activate_boost(Ctx, NewTask("boost_on"), d))

DeactivateBoost ==
  Start(async_deactivate_boost(Ctx, NewTask("boost_off")))

\* The boost helper changes state (the event fires on a change only).
BoostHelperEvent(States) ==
  \E st \in States :
    /\ cfg.boost_helper
    /\ (st = "on") # self.helper_on
    /\ Start(async_boost_helper_event(
               [Ctx EXCEPT !.s.helper_on = (st = "on")], NewTask("helper"), st))

Teardown ==
  /\ self.listening
  /\ Start(async_will_remove_from_hass(Ctx, NewTask("remove")))

CheckBoostEnd ==
  /\ self.boost_timers > 0
  /\ Start(async_check_boost_end(Ctx, NewTask("boost_check")))

\* A suspended handler is resumed: its service call has returned, or the
\* lock it waits for is free.
Resume ==
  \E i \in 1..Len(tasks) :
    /\ tasks[i].pc = "operate" => ~self.humidity_lock
    /\ \E r \in {Strict2(ResumeTask, Ctx, tasks[i])} :
         /\ self' = r.c.s
         /\ ev' = Observed(r)
         /\ tasks' = IF r.t.pc = "done" THEN RemoveAt(tasks, i)
                     ELSE [tasks EXCEPT ![i] = r.t]
    /\ UNCHANGED <<cfg, lim, now>>

AdvanceClock ==
  /\ now < lim.time
  /\ now' = now + 1
  /\ ev' = Ctx.e
  /\ UNCHANGED <<cfg, lim, self, tasks>>

\* HumidityControl.__init__ (lines 359-428) and, for target and state, the
\* defaults async_added_to_hass leaves (lines 522-526).
InitSelf(config) ==
  [ active |-> FALSE,
    state |-> config.initial_state,
    cur_humidity |-> None,
    target_humidity |-> config.target_humidity,
    saved_target_humidity |-> IF config.away_humidity \notin {None, 0}
                              THEN config.away_humidity
                              ELSE config.target_humidity,
    is_away |-> FALSE,
    cur_co2 |-> None,
    cur_voc |-> None,
    current_ventilation_level |-> 0,
    ventilation_reason |-> "none",
    current_humidifier_level |-> None,
    last_humidifier_change |-> None,
    last_ventilation_change |-> None,
    boost_active |-> FALSE,
    boost_end_time |-> None,
    remove_boost_timer |-> FALSE,
    boost_timers |-> 0,
    remove_stale_tracking |-> None,
    helper_on |-> FALSE,
    listening |-> TRUE,
    extended_operating_mode |-> "idle",
    air_quality_status |-> 0,
    attr_action |-> "idle",
    humidity_lock |-> FALSE,
    power_on |-> FALSE ]

InitWith(configs, max_tasks, max_time) ==
  /\ cfg \in configs
  /\ lim = [tasks |-> max_tasks, time |-> max_time, trip |-> FALSE]
  /\ now = 0
  /\ self = InitSelf(cfg)
  /\ tasks = <<>>
  /\ ev = NoEvent

\* ---------------------------------------------------------- specifications
\* Every handler, one handler in flight at a time.
StaleConfig == [BaseConfig EXCEPT !.sensor_stale_duration = 1]

\* No target configured and none restored yet (before line 522).
NoTargetConfig == [StaleConfig EXCEPT !.target_humidity = None]

Init == InitWith({StaleConfig, NoTargetConfig}, 1, MaxTime)

Next ==
  \/ SensorEvent({"30", "unavailable"})
  \/ SensorNotResponding
  \/ CO2Event({"1000", "abc", "unavailable"})
  \/ VOCEvent({"250", "abc"})
  \/ KeepAlive
  \/ TurnOn
  \/ TurnOff
  \/ SetHumidity({40})
  \/ SetMode(Modes)
  \/ ActivateBoost({1})
  \/ DeactivateBoost
  \/ CheckBoostEnd
  \/ Resume
  \/ AdvanceClock

Spec == Init /\ [][Next]_vars

\* The Duration Guard: sensor-driven, periodic and target-change ticks against
\* the clock, with and without a humidifier level-select entity.
InitGuard == InitWith(Configs, 1, MaxTimeGuard)

NextGuard ==
  \/ SensorEvent({"30", "44"})
  \/ CO2Event({"500", "750", "1000"})
  \/ VOCEvent({"250"})
  \/ KeepAlive
  \/ SetHumidity({40})
  \/ Resume
  \/ AdvanceClock

SpecGuard == InitGuard /\ [][NextGuard]_vars

\* Overlapping handlers: up to MaxTasks handlers in flight, the clock running
\* for one stale interval (long enough for the stale-sensor timer to fire).
InitConc == InitWith({StaleConfig}, MaxTasks, StaleConfig.sensor_stale_duration)

NextConc ==
  \/ SensorEvent({"30", "unavailable"})
  \/ SensorNotResponding
  \/ KeepAlive
  \/ TurnOn
  \/ TurnOff
  \/ ActivateBoost({1})
  \/ Resume
  \/ AdvanceClock

SpecConc == InitConc /\ [][NextConc]_vars

\* Boost: activation, the periodic end check, deactivation, and the ticks
\* around them, for humidifiers with four levels, with two levels and without
\* a level-select entity.  A boost is started only if it ends within the
\* clock's run.
BoostDurations == {1, 2}

InitBoost ==
  /\ cfg \in {BaseConfig, TwoLevelConfig, NoLevelEntityConfig}
  /\ lim = [tasks |-> 1, time |-> MaxTimeBoost, trip |-> TRUE]
  /\ now = 0
  /\ self = InitSelf(cfg)
  /\ tasks = <<>>
  /\ ev = NoEvent

NextBoost ==
  \/ SensorEvent({"30", "44"})
  \/ CO2Event({"750"})
  \/ KeepAlive
  \/ ActivateBoost({d \in BoostDurations : now + d <= lim.time})
  \/ DeactivateBoost
  \/ CheckBoostEnd
  \/ Resume
  \/ AdvanceClock

SpecBoost == InitBoost /\ [][NextBoost]_vars

\* The same with the scheduling the event loop gives: the boost timer keeps
\* firing (async_track_time_interval), time passes, and an awaited service
\* call returns.
SpecBoostLive ==
  /\ SpecBoost
  /\ SF_vars(CheckBoostEnd)
  /\ WF_vars(AdvanceClock)
  /\ WF_vars(Resume)

\* Away mode: mode and target changes, with the away target fixed and not.
AwayFixedConfig == [BaseConfig EXCEPT !.away_fixed = TRUE]

AwayTargets == {40, 50}

InitAway == InitWith({AwayFixedConfig, BaseConfig}, 1, MaxTime)

NextAway ==
  \/ SensorEvent({"30", "44"})
  \/ KeepAlive
  \/ SetMode(Modes)
  \/ SetHumidity(AwayTargets)
  \/ Resume
  \/ AdvanceClock

SpecAway == InitAway /\ [][NextAway]_vars

\* Air quality: CO2 and VOC reports that parse and that do not, against
\* humidity readings below, inside and above the band.
InitAir == InitWith({BaseConfig, NoVentilationConfig}, 1, MaxTime)

NextAir ==
  \/ SensorEvent({"30", "44", "52"})
  \/ CO2Event({"1000", "abc"})
  \/ VOCEvent({"250", "abc"})
  \/ KeepAlive
  \/ Resume
  \/ AdvanceClock

SpecAir == InitAir /\ [][NextAir]_vars

\* Staleness: a stale duration is configured; the CO2 and VOC sensors report
\* at clock 0 and are silent afterwards, the humidity sensor goes on
\* reporting, and the clock runs past the stale duration.
InitStale == InitWith({StaleConfig}, 1, MaxTimeStale)

NextStale ==
  \/ SensorEvent({"44"})
  \/ SensorNotResponding
  \/ (now = 0 /\ CO2Event({"1000"}))
  \/ (now = 0 /\ VOCEvent({"250"}))
  \/ KeepAlive
  \/ Resume
  \/ AdvanceClock

SpecStale == InitStale /\ [][NextStale]_vars

\* The same with the scheduling the event loop gives: time passes, a timer
\* that is due fires, and an awaited service call returns.
SpecStaleLive ==
  /\ SpecStale
  /\ WF_vars(AdvanceClock)
  /\ WF_vars(SensorNotResponding)
  /\ WF_vars(Resume)

\* ------------------------------------------------------------------- claims
InTick(t) == t.pc \in {"vent", "hum_off", "hum_select", "hum_on"}
TicksInFlight == {i \in 1..Len(tasks) : InTick(tasks[i])}
HumidifierIndex == get_current_humidifier_level_index(self)
UserCommands == {"turn_on", "set_humidity", "set_mode", "boost_on", "boost_off"}

\* C1: when a normal (non-boost) tick has ended with the engine active and the
\* current humidity below 35, the commanded ventilation level is at most 2.
C1_SafetyCapAfterTick ==
  (ev.end.kind = "tick" /\ self.active /\ self.cur_humidity # None
     /\ self.cur_humidity < critical_low_humidity)
  => self.current_ventilation_level <= 2

\* C2: when the handling of a primary humidity reading that failed to parse
\* has ended and the engine is inactive, ventilation is at level 0 and the
\* humidifier is off.
C2_ParseFailureAllOff ==
  (ev.fin /\ ev.fail /\ ~self.active)
  => (self.current_ventilation_level = 0 /\ ~self.power_on)

\* C3: at most one handler is inside the tick body, and exactly then the tick
\* lock is held; a handler that waits for the lock is not inside the body.
C3_OneTickInFlight ==
  /\ Cardinality(TicksInFlight) <= 1
  /\ self.humidity_lock <=> TicksInFlight # {}
  /\ \A i \in 1..Len(tasks) : tasks[i].locked <=> InTick(tasks[i])

C3_Witness ==
  \E i, j \in 1..Len(tasks) :
    /\ InTick(tasks[i])
    /\ tasks[j].pc = "operate"
    /\ tasks[i].op # tasks[j].op

\* C4: every actuator command is issued by a handler that holds the tick lock.
C4_CommandsUnderLock == ev.cmd # "none" => ev.held

\* C5: the engine-active flag turns true only in a tick that finds current and
\* target humidity known, every tick that finds both known leaves it true, and
\* it turns false only in a step in which a primary humidity update failed to
\* parse.
C5_EngineActiveLatch ==
  [][ /\ (~self.active /\ self'.active)
           => (ev'.tick # "none" /\ self'.cur_humidity # None
                 /\ self'.target_humidity # None)
      /\ (ev'.tick # "none" /\ self'.cur_humidity # None
            /\ self'.target_humidity # None) => self'.active
      /\ (self.active /\ ~self'.active)
           => (ev'.bad /\ self'.cur_humidity = None) ]_vars

C5_Witness ==
  /\ ~self.active
  /\ ev.bad
  /\ self.last_humidifier_change # None
  /\ self.boost_active

\* C6: a tick that finds the engine inactive has current or target humidity
\* unknown, issues no command and leaves the commanded levels, the reason, the
\* timestamps and the operating mode as it found them.
C6_InactiveTickDoesNothing ==
  (ev.tick # "none" /\ ~self.active)
  => /\ self.cur_humidity = None \/ self.target_humidity = None
     /\ ev.cmd = "none"
     /\ ActuatorView(self) = ev.at

C6_Witness ==
  /\ ev.tick = "inactive"
  /\ self.boost_active
  /\ self.current_humidifier_level # None
  /\ self.last_ventilation_change # None

\* The humidifier as commanded: whether it is at the requested level (without
\* a level-select entity: on exactly when a level above 0 is requested), and
\* whether it is as the tick that just ended found it.
HumidifierAt(level) ==
  IF cfg.humidifier_level_entity THEN HumidifierIndex = level
  ELSE self.power_on <=> level > 0
HumidifierAsFound ==
  /\ self.power_on = ev.end.p0
  /\ self.current_humidifier_level = ev.end.n0

\* C7: when a non-forced normal tick has ended, each actuator is as the tick
\* found it if its guard was closed, and at the requested level if its guard
\* was open (enough time elapsed, or no change recorded yet).
C7_GuardHoldsOrApplies ==
  (ev.end.kind = "tick" /\ ~ev.end.force)
  => /\ self.current_ventilation_level =
          IF ev.end.cv THEN ev.end.rv ELSE ev.end.v0
     /\ IF ev.end.ch THEN HumidifierAt(ev.end.rh) ELSE HumidifierAsFound

\* C8: a step writes the ventilation's last-change timestamp if and only if
\* it changes the commanded ventilation level, and a normal tick writes the
\* humidifier's last-change timestamp if and only if it leaves the humidifier
\* other than it found it.
C8_StampIffLevelChange ==
  [][ /\ self'.current_ventilation_level # self.current_ventilation_level
           => self'.last_ventilation_change = now'
      /\ self'.last_ventilation_change # self.last_ventilation_change
           => self'.current_ventilation_level # self.current_ventilation_level
      /\ ev'.end.kind = "tick"
           => /\ self'.last_humidifier_change # ev'.end.lh0
                   => (self'.power_on # ev'.end.p0
                         \/ self'.current_humidifier_level # ev'.end.n0)
              /\ (self'.power_on # ev'.end.p0
                    \/ self'.current_humidifier_level # ev'.end.n0)
                   => self'.last_humidifier_change = now' ]_vars

\* C9: the suppressed ticks of one run (same new ventilation level asked for,
\* guard closed) emit at most one ventilation command together, and a tick
\* whose guard was closed leaves that actuator's timestamp as it found it.
C9_SuppressedTicksIdempotent ==
  /\ ev.streak.cmds <= 1
  /\ (ev.end.kind = "tick" /\ ~ev.end.force /\ ~ev.end.cv)
       => self.last_ventilation_change = ev.end.lv0
  /\ (ev.end.kind = "tick" /\ ~ev.end.force /\ ~ev.end.ch)
       => self.last_humidifier_change = ev.end.lh0

\* C10: when a normal tick run by a user command has ended (a level-select
\* entity being configured), both actuators are at the requested levels.
C10_UserCommandNotThrottled ==
  (ev.end.kind = "tick" /\ ev.end.op \in UserCommands
     /\ cfg.humidifier_level_entity)
  => /\ self.current_ventilation_level = ev.end.rv
     /\ HumidifierIndex = ev.end.rh

\* A boost tick has ended in this step, by its last line or by an exception.
BoostTickEnded == ev.end.kind \in {"boost", "boost_raised"}

\* C11: when a boost tick has ended (boost active, engine active and enabled),
\* ventilation is at the highest level with reason boost and the operating
\* mode is boost.
C11_BoostOwnsVentilation ==
  BoostTickEnded
  => /\ self.current_ventilation_level = cfg.n_ventilation_levels - 1
     /\ self.ventilation_reason = "boost"
     /\ self.extended_operating_mode = "boost"

\* The humidifier index a boost tick is to command: min(2, level_count - 1)
\* below target - dry_tolerance, 0 otherwise.
BoostHumidifierLevel ==
  IF self.cur_humidity < self.target_humidity - cfg.dry_tolerance
  THEN Min(2, cfg.n_humidifier_levels - 1)
  ELSE 0

\* C12: when a boost tick has ended, the humidifier is at index
\* min(2, level_count - 1) if the current humidity is below target minus
\* dry_tolerance, and at index 0 (off) otherwise.
C12_BoostHumidifierLevel == BoostTickEnded => HumidifierAt(BoostHumidifierLevel)

\* C13: activate(d) makes boost active with end time now + d; a periodic
\* check leaves an active boost active exactly when now is before its end
\* time; deactivate makes boost inactive from any state; nothing else changes
\* whether boost is active or when it ends; and, the timer firing and time
\* passing, an active boost eventually ends.
C13_BoostTransitions ==
  /\ [][ /\ \A d \in BoostDurations :
              ActivateBoost({d})
              => (self'.boost_active /\ self'.boost_end_time = now + d)
         /\ (CheckBoostEnd /\ self.boost_active)
              => (self'.boost_active <=> now < self.boost_end_time)
         /\ DeactivateBoost
              => (~self'.boost_active /\ self'.boost_end_time = None)
         /\ (self'.boost_active # self.boost_active
               \/ self'.boost_end_time # self.boost_end_time)
              => (ActivateBoost(BoostDurations) \/ DeactivateBoost
                    \/ CheckBoostEnd) ]_vars
  /\ (self.boost_active ~> ~self.boost_active)

\* A boost has expired: the periodic check has ended it and run its tick.
C13_Witness ==
  /\ ~self.boost_active
  /\ ev.end.kind = "tick"
  /\ ev.end.op = "boost_check"
  /\ now = MaxTimeBoost

\* The handlers that end a boost.
BoostEnds == {"boost_off", "boost_check"}

\* C14: the tick run by the end of a boost (deactivation or expiry) is forced,
\* and when it has ended both actuators are at the levels the Arbitration
\* Engine requested, whatever the timestamps the boost left.
C14_BoostExitApplies ==
  (ev.end.kind = "tick" /\ ev.end.op \in BoostEnds /\ ev.end.b0)
  => /\ ev.end.force
     /\ self.current_ventilation_level = ev.end.rv
     /\ HumidifierAt(ev.end.rh)

\* A controller that never entered boost, given the present readings and
\* target, and what its Arbitration Engine decides.
FreshSelf ==
  [InitSelf(cfg) EXCEPT !.active = TRUE,
                        !.cur_humidity = self.cur_humidity,
                        !.cur_co2 = self.cur_co2,
                        !.cur_voc = self.cur_voc,
                        !.target_humidity = self.target_humidity]
FreshDecision == Arbitrate(FreshSelf)

\* C15: after activate, boost tick, deactivate and its tick, the readings
\* unchanged throughout, the first non-forced tick leaves ventilation level
\* and reason, humidifier level and operating mode as a controller that never
\* entered boost decides them from the same readings.
C15_BoostRoundTrip ==
  ev.trip = "tripped"
  => /\ self.current_ventilation_level = FreshDecision.vent_level
     /\ self.ventilation_reason = FreshDecision.vent_reason
     /\ HumidifierAt(FreshDecision.humidifier_level)
     /\ self.extended_operating_mode = FreshDecision.new_mode

\* The current humidity is inside the tolerance band around the target.
InToleranceBand ==
  /\ self.cur_humidity # None
  /\ self.target_humidity # None
  /\ self.target_humidity - self.cur_humidity < cfg.dry_tolerance
  /\ self.cur_humidity - self.target_humidity < cfg.wet_tolerance

C17_AwayFixedFrame ==
  [][ \A h \in AwayTargets :
        (SetHumidity({h}) /\ self.is_away /\ cfg.away_fixed)
        => /\ self' = [self EXCEPT !.saved_target_humidity = h]
           /\ tasks' = tasks
           /\ ev'.tick = "none"
           /\ ev'.cmd = "none" ]_vars

C17_Witness ==
  /\ cfg.away_fixed
  /\ self.is_away
  /\ ev.fin
  /\ ev.tick = "none"
  /\ self.saved_target_humidity = 50
  /\ self.target_humidity = cfg.away_humidity
  /\ self.active
  /\ self.power_on

\* A sensor state that float() rejects.
Unparsable == {"abc"}

\* C18: a CO2 (VOC) update that fails to parse sets that signal to unknown and
\* leaves the engine-active flag, the humidity reading and the other signal as
\* they were; no humidity failure is recorded and no command is issued outside
\* the tick.  A normal tick that has ended with a signal unknown has not taken
\* that signal as the ventilation reason, and with both unknown it requested
\* ventilation level 0 unless it was dehumidifying.
C18_AirQualityParseFailure ==
  [][ /\ CO2Event(Unparsable)
           => /\ self'.cur_co2 = None
              /\ self'.cur_voc = self.cur_voc
              /\ self'.cur_humidity = self.cur_humidity
              /\ self'.active = self.active
              /\ ~ev'.bad
              /\ ev'.cmd # "none" => ev'.held
      /\ VOCEvent(Unparsable)
           => /\ self'.cur_voc = None
              /\ self'.cur_co2 = self.cur_co2
              /\ self'.cur_humidity = self.cur_humidity
              /\ self'.active = self.active
              /\ ~ev'.bad
              /\ ev'.cmd # "none" => ev'.held
      /\ (ev'.end.kind = "tick" /\ self'.cur_co2 = None)
           => self'.ventilation_reason # "co2"
      /\ (ev'.end.kind = "tick" /\ self'.cur_voc = None)
           => self'.ventilation_reason # "voc"
      /\ (ev'.end.kind = "tick" /\ self'.cur_co2 = None /\ self'.cur_voc = None
            /\ self'.extended_operating_mode # "dehumidifying")
           => ev'.end.rv = 0 ]_vars

\* The tick of a CO2 update that failed to parse has ended: ventilation was
\* running when it began, and it requested level 0.
C18_Witness ==
  /\ ev.end.kind = "tick"
  /\ ev.end.op = "co2"
  /\ self.cur_co2 = None
  /\ self.active
  /\ ev.end.v0 > 0
  /\ ev.end.rv = 0

\* The states the primary humidity sensor reports in these runs.
HumidityStates == {"30", "unavailable"}

\* C19: the stale-sensor timer acts as a humidity reading that failed to
\* parse: its step makes the engine inactive and the humidity unknown, and
\* when its handling has ended with the engine inactive, ventilation is at
\* level 0 and the humidifier is off; every humidity update restarts the
\* stale interval from the time of the update.
C19_StaleAsParseFailure ==
  [][ /\ SensorNotResponding
           => (~self'.active /\ self'.cur_humidity = None /\ ev'.bad)
      /\ (ev'.fin /\ ev'.stale /\ ~self'.active)
           => (self'.current_ventilation_level = 0 /\ ~self'.power_on)
      /\ \A raw \in HumidityStates :
           SensorEvent({raw})
           => self'.remove_stale_tracking = now + cfg.sensor_stale_duration
    ]_vars

\* C20: a stale duration being configured and the CO2 and VOC sensors silent
\* from clock 0 on, a CO2 value that is known eventually becomes unknown, and
\* so does a VOC value.
C20_StaleAirQualityUnknown ==
  /\ (self.cur_co2 # None) ~> (self.cur_co2 = None)
  /\ (self.cur_voc # None) ~> (self.cur_voc = None)
\* ---------------------------------------------------------------------------
\* A service call awaited inside the tick raises (hass.services.async_call
\* raises for a service that is not registered or data it rejects): nothing
\* catches it, so it leaves the setter and _async_operate, and the statements
\* after the await are not executed. The entity keeps the power state it had.
FailTask_Recorded(c, t) ==
  RaiseInTick([VentilationWrite(c, t) EXCEPT
                 !.e.raised = [cmd |-> t.pc, level |-> t.vl]], t)

FailTask(c, t) ==
  RaiseInTick([c EXCEPT
                 !.s.power_on = IF t.pc = "hum_on" THEN FALSE
                                ELSE IF t.pc = "hum_off" THEN TRUE ELSE @,
                 !.e.raised = [cmd |-> t.pc,
                               level |-> IF t.pc = "vent" THEN t.vl ELSE t.hl]],
              t)

CallFails ==
  \E i \in TicksInFlight :
    /\ \E r \in {Strict2(FailTask, Ctx, tasks[i])} :
         /\ self' = r.c.s
         /\ ev' = Observed(r)
         /\ tasks' = RemoveAt(tasks, i)
    /\ UNCHANGED <<cfg, lim, now>>

InitFail == InitWith(Configs, 1, MaxTime)
NextFail ==
  \/ SensorEvent({"30", "44"})
  \/ CO2Event({"500", "1000"})
  \/ KeepAlive
  \/ TurnOn
  \/ Resume
  \/ CallFails
  \/ AdvanceClock
SpecFail == InitFail /\ [][NextFail]_vars

\* ---------------------------------------------------------------------------
\* Level lists of every length from one entry up.
MaxLevels == 4
LevelConfigs ==
  {[BaseConfig EXCEPT !.n_humidifier_levels = nh, !.n_ventilation_levels = nv] :
     nh \in 1..MaxLevels, nv \in {1, 2, BaseConfig.n_ventilation_levels}}

InitLevels == InitWith(LevelConfigs, 1, MaxTime)
NextLevels ==
  \/ SensorEvent({"30", "36", "40", "44"})
  \/ CO2Event({"750", "1000"})
  \/ KeepAlive
  \/ ActivateBoost({1})
  \/ CheckBoostEnd
  \/ Resume
  \/ AdvanceClock
SpecLevels == InitLevels /\ [][NextLevels]_vars

VentilationIndices == 0..(cfg.n_ventilation_levels - 1)
HumidifierIndices == 0..(cfg.n_humidifier_levels - 1)

\* C21: for every level-list length of at least one, the commanded ventilation
\* index lies within the ventilation list and every humidifier index the
\* arbitration tiers or the boost request or command lies within the
\* humidifier list (no tick ends on an index outside a list).
C21_IndicesInRange ==
  /\ self.current_ventilation_level \in VentilationIndices
  /\ \A i \in TicksInFlight :
       /\ tasks[i].pc = "vent" => tasks[i].vl \in VentilationIndices
       /\ tasks[i].pc \in {"hum_select", "hum_on"} =>
            tasks[i].hl \in HumidifierIndices
  /\ ev.end.kind \in {"tick", "tick_raised"} => ev.end.rh \in HumidifierIndices
  /\ ev.end.kind # "boost_raised"
  /\ HumidifierIndex \in HumidifierIndices
\* ---------------------------------------------------------------------------
\* Configurations the schema accepts although a level list is empty or a
\* critical value equals its target, next to the default one.
DegenerateConfigs ==
  { [BaseConfig EXCEPT !.n_ventilation_levels = 0],
    [BaseConfig EXCEPT !.n_humidifier_levels = 0],
    [BaseConfig EXCEPT !.co2_critical = BaseConfig.co2_target],
    [BaseConfig EXCEPT !.humidity_dehumidify_critical =
                         BaseConfig.humidity_dehumidify_threshold] }

InitDegenerate == InitWith(DegenerateConfigs \cup {BaseConfig}, 1, MaxTime)
NextDegenerate ==
  \/ SensorEvent({"30", "44", "52"})
  \/ CO2Event({"500", "750"})
  \/ KeepAlive
  \/ Resume
  \/ AdvanceClock
SpecDegenerate == InitDegenerate /\ [][NextDegenerate]_vars

ValidConfig ==
  /\ cfg.n_ventilation_levels >= 1
  /\ cfg.n_humidifier_levels >= 1
  /\ cfg.co2_critical # cfg.co2_target
  /\ cfg.voc_critical # cfg.voc_target
  /\ cfg.humidity_dehumidify_critical # cfg.humidity_dehumidify_threshold

\* C22: a controller whose configuration is invalid (an empty level list, a
\* critical value equal to its target) does not start: it never enters a
\* tick, and so no tick ends on a division by zero or on an index outside a
\* list.
C22_InvalidConfigRefused ==
  ~ValidConfig => ev.tick \notin {"normal", "boost"} /\ ~ev.exc
\* ---------------------------------------------------------------------------
\* The Arbitration Engine over readings below, at and above every target.
ArbTargets == {45, 55}
InitArb == InitWith({BaseConfig}, 1, MaxTime)
NextArb ==
  \/ SensorEvent({"30", "44", "48", "52"})
  \/ CO2Event({"500", "600", "1000"})
  \/ VOCEvent({"100", "250"})
  \/ SetHumidity(ArbTargets)
  \/ KeepAlive
  \/ Resume
  \/ AdvanceClock
SpecArb == InitArb /\ [][NextArb]_vars

\* The mapping as the specification states it, for level_count >= 2.
MappedLevel(excess, range, level_count) ==
  IF excess <= 0 THEN 0
  ELSE Max(1, Min(level_count - 1, ((excess * (level_count - 1)) \div range) + 1))

\* C23: the level the engine maps a CO2 reading, a VOC reading and a humidity
\* reading (dehumidify-by-ventilation) to is 0 when the reading is at or
\* below its target, and otherwise
\* clamp(floor(excess / (critical - target) * (level_count - 1)) + 1, 1,
\* level_count - 1).
C23_ProportionalMapping ==
  /\ ev.end.kind = "tick" /\ self.cur_co2 # None /\ self.cur_voc = None =>
       calculate_ventilation_need(self).level =
         MappedLevel(self.cur_co2 - cfg.co2_target,
                     cfg.co2_critical - cfg.co2_target, cfg.n_ventilation_levels)
  /\ ev.end.kind = "tick" /\ self.cur_voc # None /\ self.cur_co2 = None =>
       calculate_ventilation_need(self).level =
         MappedLevel(self.cur_voc - cfg.voc_target,
                     cfg.voc_critical - cfg.voc_target, cfg.n_ventilation_levels)
  /\ ev.end.kind = "tick" /\ self.cur_humidity # None =>
       calculate_dehumidify_ventilation(self).level =
         MappedLevel(self.cur_humidity - cfg.humidity_dehumidify_threshold,
                     cfg.humidity_dehumidify_critical
                       - cfg.humidity_dehumidify_threshold,
                     cfg.n_ventilation_levels)
\* ---------------------------------------------------------------------------
\* Air-quality readings below, at and above the CO2 and VOC targets.
AirReadings == {50, 100, 250, 350, 500, 600, 750, 900, 1000}

\* The CO2/VOC-driven ventilation level after the low-humidity cap.
AirQualityLevel(s) ==
  resolve_conflicts(s, calculate_ventilation_need(s).level, 0)[1]

HumidityReadings == 25..50

\* The tiers as the specification states them, N the length of the level list.
HumidifierTier(deficit, tolerance, N) ==
  IF deficit < tolerance THEN 0
  ELSE IF deficit >= tolerance + 10 THEN N - 1
  ELSE IF deficit >= tolerance + 5 THEN Max(1, N - 2)
  ELSE 1

\* C25: the humidifier level is 0 when the deficit (target minus current) is
\* below dry_tolerance, level_count - 1 when it is at least dry_tolerance + 10,
\* max(1, level_count - 2) when it is at least dry_tolerance + 5, and 1
\* otherwise; a tick requests that level for its readings.
C25_HumidifierTiers ==
  /\ \A cur \in HumidityReadings :
       self.target_humidity # None =>
         calculate_humidifier_need([self EXCEPT !.cur_humidity = cur]).level
           = HumidifierTier(self.target_humidity - cur, cfg.dry_tolerance,
                            cfg.n_humidifier_levels)
  /\ ev.end.kind \in {"tick", "tick_raised"} =>
       ev.end.rh = HumidifierTier(self.target_humidity - self.cur_humidity,
                                  cfg.dry_tolerance, cfg.n_humidifier_levels)

\* A tick has requested max(1, level_count - 2) = 2 of four levels for a
\* deficit of 9, between dry_tolerance + 5 and dry_tolerance + 10.
C25_Witness ==
  /\ ev.end.kind = "tick"
  /\ cfg.n_humidifier_levels = 4
  /\ self.target_humidity - self.cur_humidity = 9
  /\ ev.end.rh = 2
\* ---------------------------------------------------------------------------
\* The mode priority as the specification states it.
ModePriority(s) ==
  LET vent_level == calculate_ventilation_need(s).level
      humidify == calculate_humidifier_need(s).needed
  IN  IF vent_level > 0 /\ humidify THEN "ventilating_and_humidifying"
      ELSE IF vent_level > 0 THEN "ventilating"
      ELSE IF humidify THEN "humidifying"
      ELSE IF s.cur_humidity >= cfg.humidity_dehumidify_threshold
           THEN "dehumidifying"
      ELSE "idle"

\* C26: a tick outside boost publishes the mode chosen by the priority order
\* ventilating_and_humidifying, ventilating, humidifying, dehumidifying (when
\* humidity is at or above the dehumidify threshold, with or without a
\* ventilation actuator), idle.
C26_ModePriority ==
  ev.end.kind = "tick" => self.extended_operating_mode = ModePriority(self)

\* A tick of a controller without a ventilation actuator has published
\* dehumidifying.
C26_Witness ==
  /\ ev.end.kind = "tick"
  /\ ~cfg.ventilation_entity
  /\ self.cur_humidity >= cfg.humidity_dehumidify_threshold
  /\ self.extended_operating_mode = "dehumidifying"
\* ---------------------------------------------------------------------------
\* The reason code as the specification states it, from the readings alone.
ExpectedReason(s) ==
  LET co2_level == calculate_ventilation_need([s EXCEPT !.cur_voc = None]).level
      voc_level == calculate_ventilation_need([s EXCEPT !.cur_co2 = None]).level
  IN  IF voc_level > co2_level THEN "voc"
      ELSE IF co2_level > 0 THEN "co2"
      ELSE IF Arbitrate(s).new_mode = "dehumidifying"
              /\ calculate_dehumidify_ventilation(s).level > 0 THEN "humidity"
      ELSE "none"

\* C27: the reason a tick records with its ventilation request is a function
\* of the current readings only (VOC if the VOC level is the higher one, else
\* CO2 if the CO2 level is above 0, else HUMIDITY if only the dehumidify path
\* contributes, else NONE), whatever ventilation level was commanded before,
\* and it is NONE only when the requested level is 0.
C27_ReasonFromReadings ==
  ev.end.kind = "tick" =>
    /\ self.ventilation_reason = ExpectedReason(self)
    /\ self.ventilation_reason = "none" => ev.end.rv = 0
\* ---------------------------------------------------------------------------
\* C28: a tick requests dehumidify-driven ventilation (reason HUMIDITY)
\* exactly when neither CO2 nor VOC needs ventilation and the humidity is at or
\* above the dehumidify threshold, whatever the humidify need is; the level is
\* then the dehumidify path's own and never combined with a CO2/VOC level.
\* (At the threshold itself the dehumidify level is 0 and there is nothing to
\* request.)
C28_DehumidifyVentilation ==
  ev.end.kind = "tick" =>
    /\ self.ventilation_reason = "humidity"
         => /\ calculate_ventilation_need(self).level = 0
            /\ is_dehumidify_needed(self)
    /\ ( /\ calculate_ventilation_need(self).level = 0
         /\ is_dehumidify_needed(self)
         /\ calculate_dehumidify_ventilation(self).level > 0 )
         => self.ventilation_reason = "humidity"
    /\ self.ventilation_reason = "humidity" =>
         ev.end.rv = resolve_conflicts(
                       self, calculate_dehumidify_ventilation(self).level, 0)[1]
\* ---------------------------------------------------------------------------
\* The tick that would run now, in the present state: up to its first service
\* call (TickNow), and up to its first call to the humidifier, its ventilation
\* call having returned (HumidifierTickNow).
TickNow(force) ==
  async_operate([s |-> self, e |-> NoEvent], NewTask("keep_alive"), force)

HumidifierTickNow(force) ==
  IF TickNow(force).t.pc = "vent"
  THEN ResumeTask(TickNow(force).c, TickNow(force).t).t
  ELSE TickNow(force).t

InitTwice ==
  /\ cfg \in Configs
  /\ lim = [tasks |-> 1, time |-> MaxTime, trip |-> TRUE]
  /\ now = 0
  /\ self = InitSelf(cfg)
  /\ tasks = <<>>
  /\ ev = NoEvent
NextTwice ==
  \/ SensorEvent({"30", "44"})
  \/ CO2Event({"1000"})
  \/ KeepAlive
  \/ TurnOn
  \/ Resume
  \/ AdvanceClock
SpecTwice == InitTwice /\ [][NextTwice]_vars

\* C30: a tick that follows the same tick (the same force flag, the readings
\* unchanged) emits no command and leaves the commanded levels, the power
\* state and the last-change timestamps of both actuators as it found them,
\* with and without a humidifier level-select entity.
C30_TickIdempotent ==
  (ev.end.kind = "tick" /\ ev.twin.n = 2) =>
    /\ ev.tick = "normal"
    /\ self.current_ventilation_level = ev.end.v0
    /\ self.last_ventilation_change = ev.end.lv0
    /\ self.current_humidifier_level = ev.end.n0
    /\ self.power_on = ev.end.p0
    /\ self.last_humidifier_change = ev.end.lh0
\* ---------------------------------------------------------------------------
\* The controller's life from its start to its removal, with a boost helper,
\* a stale-sensor timer and the keep-alive timer. Events and service calls
\* reach the entity only while it is registered.
HelperConfig == [StaleConfig EXCEPT !.boost_helper = TRUE]
InitLife == InitWith({HelperConfig}, 1, MaxTimeStale)
NextLife ==
  \/ /\ self.listening
     /\ \/ SensorEvent({"30", "44"})
        \/ ActivateBoost({1})
        \/ DeactivateBoost
        \/ BoostHelperEvent({"on", "off", "none"})
  \/ KeepAlive
  \/ SensorNotResponding
  \/ CheckBoostEnd
  \/ Teardown
  \/ Resume
  \/ AdvanceClock
SpecLife == InitLife /\ [][NextLife]_vars

\* C31: before the controller is removed, boost is active exactly when a boost
\* end time is set, and while it is active exactly one expiry check is
\* scheduled; activating boost while it is active sets the end time to
\* now + duration and leaves a single timer.
C31_BoostTimer ==
  /\ [](self.listening =>
         /\ self.boost_active <=> self.boost_end_time # None
         /\ self.boost_active => self.boost_timers = 1)
  /\ [][(self.boost_active /\ ActivateBoost({1})) =>
          /\ self'.boost_active
          /\ self'.boost_end_time = now + 1
          /\ self'.boost_timers = 1]_vars

\* A boost tick of an activation made while boost was active has ended.
C31_Witness ==
  /\ ev.end.kind = "boost"
  /\ ev.end.op = "boost_on"
  /\ ev.end.b0
  /\ self.boost_active
  /\ self.boost_timers = 1

\* C32: once the controller is removed no timer is left scheduled (stale-sensor
\* check, boost-expiry check, keep-alive), so no keep-alive tick, no
\* stale-sensor all-off and no boost-expiry check starts after the removal.
C32_TimersCancelled ==
  /\ [](~self.listening =>
         /\ self.boost_timers = 0
         /\ self.remove_stale_tracking = None)
  /\ [][~self.listening =>
          ~(KeepAlive \/ SensorNotResponding \/ CheckBoostEnd)]_vars

\* The controller was removed while boost was active and the stale-sensor
\* check was scheduled, and the boost end time has passed.
C32_Witness ==
  /\ ~self.listening
  /\ self.boost_active
  /\ self.remove_boost_timer
  /\ self.boost_end_time # None
  /\ now >= self.boost_end_time
  /\ self.cur_humidity # None


\* C33: once every turn-off has completed and until the next turn-on, the
\* ventilation is at level 0 and the humidifier is off, also when a tick was
\* suspended on an actuator command when the turn-off was called.
C33_OffStaysOff ==
  (/\ ~self.state
   /\ \A i \in 1..Len(tasks) : tasks[i].op # "turn_off")
  => /\ self.current_ventilation_level = 0
     /\ ~self.power_on


\* C34: whenever no handler is in flight, the operating mode idle implies that
\* the ventilation is at level 0 and the humidifier is off, also when the
\* Duration Guard held an actuator at the level the tick found.
C34_IdleMeansOff ==
  (tasks = <<>> /\ self.extended_operating_mode = "idle")
  => /\ self.current_ventilation_level = 0
     /\ ~self.power_on


\* C35: when a normal (non-boost) tick has ended that found the deficit
\* target - current below dry_tolerance and ran min_humidify_duration or more
\* after the humidifier's last change (or with no change recorded), the
\* humidifier is off, with and without a level-select entity.
C35_HumidifierOffOnceGuardOpens ==
  (/\ ev.end.kind = "tick"
   /\ ev.end.ch
   /\ self.cur_humidity # None
   /\ self.target_humidity # None
   /\ self.target_humidity - self.cur_humidity < cfg.dry_tolerance)
  => ~self.power_on


\* C36: a non-forced normal tick that the Arbitration Engine asked for a
\* ventilation level other than the commanded one, and that began
\* min_ventilate_duration or more after the commanded level last changed (or
\* with no level change yet), ends with the ventilation at the requested
\* level, whatever reason-only writes happened since that change.
C36_LevelAppliedOnceDue ==
  (/\ ev.end.kind = "tick"
   /\ ~ev.end.force
   /\ ev.end.rv # ev.end.v0
   /\ self.current_ventilation_level # ev.end.rv)
  => /\ ev.levelled # None
     /\ ev.end.t0 - ev.levelled < cfg.min_ventilate_duration


\* C37: set_mode(Away) followed by set_mode(Normal) restores the target that
\* was live before going away (an away humidity being configured, no target
\* set in between), also when set_mode(Away) is called several times in a row:
\* going away saves the live target, a further set_mode(Away) keeps the saved
\* target, and set_mode(Normal) makes the saved target the live one.
C37_AwayRoundTrip ==
  [][ /\ (~self.is_away /\ cfg.away_humidity # None /\ SetMode({"away"}))
           => self'.saved_target_humidity = self.target_humidity
      /\ (self.is_away /\ SetMode({"away"}))
           => self'.saved_target_humidity = self.saved_target_humidity
      /\ (self.is_away /\ SetMode({"normal"}))
           => self'.target_humidity = self.saved_target_humidity ]_vars

\* C38: set_mode(Normal) while the controller is not away leaves the live
\* target as it is, in every reachable state, the initial one included.
C38_NormalKeepsTarget ==
  [][ (~self.is_away /\ SetMode({"normal"}))
        => self'.target_humidity = self.target_humidity ]_vars


\* C39: the tick in which the engine becomes active, at startup or when the
\* primary sensor reports again after a failure, is forced: when it has ended
\* the actuators are at the levels the Arbitration Engine requested (in boost:
\* at the boost levels), whatever the last-change timestamps it found.
C39_FirstActiveTickForced ==
  /\ (ev.end.kind = "tick" /\ ev.end.woke)
       => /\ ev.end.force
          /\ self.current_ventilation_level = ev.end.rv
          /\ HumidifierAt(ev.end.rh)
  /\ (ev.end.kind = "boost" /\ ev.end.woke)
       => /\ self.current_ventilation_level = cfg.n_ventilation_levels - 1
          /\ self.ventilation_reason = "boost"
          /\ HumidifierAt(BoostHumidifierLevel)

\* The tick of a recovery has ended: it found the humidifier off with its
\* guard closed by a change made before the failure, and turned it on.
C39_Witness ==
  /\ ev.end.kind = "tick"
  /\ ev.end.woke
  /\ ev.end.lh0 # None
  /\ ~ev.end.ch
  /\ ev.end.h0 = 0
  /\ ev.end.rh > 0
  /\ HumidifierAt(ev.end.rh)


\* C40: async_turn_on and async_turn_off called while the engine is inactive
\* change nothing: the enabled flag, the commanded levels, the timestamps, the
\* operating mode and every other field stay as they were, no command is
\* issued and no handler stays in flight.
C40_InactiveSwitchesDoNothing ==
  [][ (~self.active /\ (TurnOn \/ TurnOff))
        => /\ self' = self
           /\ ev'.cmd = "none"
           /\ ev'.tick = "none"
           /\ tasks' = tasks ]_vars

\* A handler has returned at once, without a tick, an all-off or a command,
\* with the engine inactive after a sensor failure, the controller enabled
\* and no boost timer scheduled: what only turn-on and turn-off do.
C40_Witness ==
  /\ ev.fin
  /\ ev.tick = "none"
  /\ ev.cmd = "none"
  /\ ~ev.bad
  /\ ~ev.fail
  /\ ~ev.stale
  /\ ~self.active
  /\ self.state
  /\ self.boost_timers = 0
  /\ self.last_humidifier_change # None
====
